---- MODULE Spec2Model ----
(***************************************************************************)
(* Model of app.py: the subset-sum solver with tolerance                   *)
(* (subset_sum_with_tolerance) as a step machine over its two tables, and   *)
(* the request handler (index) that parses the form texts and calls it.     *)
(***************************************************************************)
EXTENDS Integers, Sequences, FiniteSets, TLC

\* ---- bounds of the explored inputs --------------------------------------
MaxLen == 3        \* longest list of values passed in a direct call
MaxAbs == 2        \* values of a direct call range over -MaxAbs..MaxAbs
MaxTarget == 3     \* targets of a direct call range over -MaxTarget..MaxTarget
MaxTol == 2        \* tolerances of a direct call range over -1..MaxTol
WidthCeiling == 4  \* the width ceiling the specification asks for (absent from app.py)

\* ---- small helpers --------------------------------------------------------
Abs(x) == IF x < 0 THEN -x ELSE x
Max(a, b) == IF a >= b THEN a ELSE b
Min(a, b) == IF a <= b THEN a ELSE b

RECURSIVE SeqsUpTo(_, _)
SeqsUpTo(S, n) ==
  IF n = 0 THEN {<<>>}
  ELSE LET shorter == SeqsUpTo(S, n - 1)
       IN  shorter \cup {Append(q, x) : q \in {r \in shorter : Len(r) = n - 1}, x \in S}

RECURSIVE SumSeq(_)
SumSeq(q) == IF q = <<>> THEN 0 ELSE Head(q) + SumSeq(Tail(q))

\* indices.reverse()
Reverse(q) == [n \in 1..Len(q) |-> q[Len(q) + 1 - n]]

\* ---- texts: a text is a sequence of one-character strings -----------------
None == <<>>          \* Python's None for an Optional[int]; a value n is <<n>>
Some(n) == <<n>>

DigitChars == <<"0", "1", "2", "3", "4", "5", "6", "7", "8", "9">>
IsDigit(ch) == \E d \in 1..10 : DigitChars[d] = ch
DigitVal(ch) == (CHOOSE d \in 1..10 : DigitChars[d] = ch) - 1
IsSpace(ch) == ch \in {" ", "\t", "\n", "\r"}

Contains(s, ch) == \E n \in 1..Len(s) : s[n] = ch
\* s.rfind(ch), 1-based, 0 when absent
RFind(s, ch) == IF Contains(s, ch) THEN CHOOSE n \in 1..Len(s) :
                     s[n] = ch /\ \A m \in (n + 1)..Len(s) : s[m] # ch
                ELSE 0
\* s.replace(ch, "")
Remove(s, ch) == SelectSeq(s, LAMBDA c : c # ch)
\* s.replace(a, b) for single characters
Replace(s, a, b) == [n \in 1..Len(s) |-> IF s[n] = a THEN b ELSE s[n]]

RECURSIVE LStrip(_)
LStrip(s) == IF s # <<>> /\ IsSpace(Head(s)) THEN LStrip(Tail(s)) ELSE s
\* s.strip()
Strip(s) == Reverse(LStrip(Reverse(LStrip(s))))

\* re.split(r"[;\t]", ln) and, with seps = line breaks, texto.splitlines() (the
\* empty pieces split leaves where splitlines leaves none are dropped by the caller)
RECURSIVE SplitOn(_, _, _)
SplitOn(s, seps, cur) ==
  IF s = <<>> THEN <<cur>>
  ELSE IF Head(s) \in seps THEN <<cur>> \o SplitOn(Tail(s), seps, <<>>)
  ELSE SplitOn(Tail(s), seps, Append(cur, Head(s)))

\* str(n) for n >= 0
RECURSIVE DecText(_)
DecText(n) == IF n < 10 THEN <<DigitChars[n + 1]>>
              ELSE Append(DecText(n \div 10), DigitChars[(n % 10) + 1])

\* re.match(r".*,\d{2}$", s)
EndsCommaTwoDigits(s) ==
  /\ Len(s) >= 3 /\ s[Len(s) - 2] = ","
  /\ IsDigit(s[Len(s) - 1]) /\ IsDigit(s[Len(s)])

\* lines 33-47: the normalised text handed to float()
Normalise(s) ==
  IF Contains(s, ",") /\ Contains(s, ".")
  THEN IF RFind(s, ",") > RFind(s, ".")
       THEN Replace(Remove(s, "."), ",", ".")
       ELSE Remove(s, ",")
  ELSE IF Contains(s, ",")
  THEN IF EndsCommaTwoDigits(s)
       THEN Replace(Remove(s, "."), ",", ".")
       ELSE Remove(s, ",")
  ELSE s

\* float(): optional sign, digits with at most one ".", at least one digit;
\* surrounding whitespace ignored.  Texts with exponents, underscores, inf or
\* nan are outside the alphabet explored here.
FloatBody(s) == LET t == Strip(s)
                IN  IF t # <<>> /\ Head(t) \in {"+", "-"} THEN Tail(t) ELSE t
FloatSign(s) == LET t == Strip(s)
                IN  IF t # <<>> /\ Head(t) = "-" THEN -1 ELSE 1
IsFloatText(s) ==
  LET b == FloatBody(s)
  IN  /\ \A n \in 1..Len(b) : IsDigit(b[n]) \/ b[n] = "."
      /\ Cardinality({n \in 1..Len(b) : b[n] = "."}) <= 1
      /\ \E n \in 1..Len(b) : IsDigit(b[n])

RECURSIVE DigitsValue(_)
DigitsValue(ds) == IF ds = <<>> THEN 0
                   ELSE 10 * DigitsValue(SubSeq(ds, 1, Len(ds) - 1)) + DigitVal(ds[Len(ds)])
RECURSIVE Pow10(_)
Pow10(n) == IF n = 0 THEN 1 ELSE 10 * Pow10(n - 1)

\* round(num / den) for num >= 0: nearest, halves to even
RoundHalfEven(num, den) ==
  LET q == num \div den
      r == num % den
  IN  IF 2 * r < den THEN q
      ELSE IF 2 * r > den THEN q + 1
      ELSE IF q % 2 = 0 THEN q ELSE q + 1

\* int(round(float(s_norm) * sign * 100)) for a text float() accepts.  Exact
\* decimal arithmetic: it agrees with the binary float wherever the third
\* decimal is not a 5, which holds for every text explored here.
CentsOf(s_norm, sign) ==
  LET b == FloatBody(s_norm)
      dot == RFind(b, ".")
      fracLen == IF dot = 0 THEN 0 ELSE Len(b) - dot
      n == DigitsValue(Remove(b, "."))
  IN  sign * FloatSign(s_norm) * RoundHalfEven(n * 100, Pow10(fracLen))

\* parse_number_br_or_en
parse_number_br_or_en(s0) ==
  LET s1 == Strip(s0)
  IN  IF s1 = <<>> THEN None
      ELSE LET s2 == Remove(s1, " ")
               signed == Head(s2) \in {"+", "-"}
               sign == IF Head(s2) = "-" THEN -1 ELSE 1
               s3 == IF signed THEN Tail(s2) ELSE s2
               s_norm == Normalise(s3)
           IN  IF IsFloatText(s_norm) THEN Some(CentsOf(s_norm, sign)) ELSE None

\* f"Item {i}"
ItemLabel(n) == <<"I", "t", "e", "m", " ">> \o DecText(n)

\* the loop body of parse_linhas_para_centavos for the n-th non-empty line:
\* <<>> when the line is skipped, else << [label, valor] >>
ParseLine(ln, n) ==
  LET partes == SplitOn(ln, {";", "\t"}, <<>>)
      label == IF Len(partes) = 1 THEN ItemLabel(n)
               ELSE Strip(IF partes[1] = <<>> THEN ItemLabel(n) ELSE partes[1])
      valor == parse_number_br_or_en(partes[Len(partes)])
  IN  IF valor = None THEN <<>> ELSE <<[label |-> label, valor |-> valor[1]]>>

RECURSIVE ParseLines(_, _)
ParseLines(linhas, n) ==
  IF n > Len(linhas) THEN <<>>
  ELSE ParseLine(linhas[n], n) \o ParseLines(linhas, n + 1)

\* parse_linhas_para_centavos
parse_linhas_para_centavos(texto) ==
  LET raw == SplitOn(texto, {"\n", "\r"}, <<>>)
      stripped == [n \in 1..Len(raw) |-> Strip(raw[n])]
      linhas == SelectSeq(stripped, LAMBDA ln : ln # <<>>)
  IN  ParseLines(linhas, 1)

\* f"{reais:,}".replace(",", "."): groups of three digits from the right
RECURSIVE GroupDots(_)
GroupDots(ds) == IF Len(ds) <= 3 THEN ds
                 ELSE GroupDots(SubSeq(ds, 1, Len(ds) - 3)) \o <<".">>
                      \o SubSeq(ds, Len(ds) - 2, Len(ds))

\* format_centavos
format_centavos(cents) ==
  LET sinal == IF cents < 0 THEN <<"-">> ELSE <<>>
      a == Abs(cents)
      reais == a \div 100
      cent == a % 100
  IN  sinal \o GroupDots(DecText(reais)) \o <<",">>
      \o <<DigitChars[(cent \div 10) + 1], DigitChars[(cent % 10) + 1]>>

\* ---- the form texts explored ----------------------------------------------
ListaTexts ==
  { <<>>,
    <<"x", "\n", ";", "y">>,
    <<",", "0", "5">>,
    <<",", "0", "2", "\n", ",", "0", "1">>,
    <<"a", ";", ",", "0", "3", "\n", "x", "\n", "-", "0", ".", "0", "1">>,
    <<"b", "\t", ".", "0", "2", "\n", ";", ".", "0", "2", "\n", "\n",
      " ", "c", " ", ";", "d", ";", " ", ",", "0", "1">> }
AlvoTexts ==
  { <<>>, <<"x">>, <<"0">>, <<",", "0", "3">>, <<"0", ".", "0", "2">>,
    <<"-", ",", "0", "1">>, <<" ", "+", ".", "0", "4", " ">>, <<"1", ",", "0">> }
ToleranciaTexts ==
  { <<>>, <<"x">>, <<",", "0", "1">>, <<"-", ",", "0", "1">> }

\* the body of the plain-text response (diacritics dropped)
InfeasibleText == "nao existe combinacao para os valores informados"
ErrorText == "Verifique o valor do alvo, a tolerancia e a lista de itens."

\* ---- subset_sum_with_tolerance: pure pieces -------------------------------
\* tolerance = max(0, int(tolerance))
CoerceTolerance(tol) == Max(0, tol)

\* min_sum = sum(v for v in values if v < 0)
MinSum(vals) == SumSeq([n \in 1..Len(vals) |-> IF vals[n] < 0 THEN vals[n] ELSE 0])
\* max_sum = sum(v for v in values if v > 0)
MaxSum(vals) == SumSeq([n \in 1..Len(vals) |-> IF vals[n] > 0 THEN vals[n] ELSE 0])

\* lower = max(min_sum, target - tolerance)
Lower(vals, tgt, tol) == Max(MinSum(vals), tgt - tol)
UpperNoClamp(vals, tgt, tol) == MaxSum(vals)
\* upper = min(max_sum, target + tolerance)
Upper(vals, tgt, tol) == Min(MaxSum(vals), tgt + tol)

\* the cells range(width, -1, -1) / range(0, width + 1) yields, in order
SweepRangeAscending(v, w) == [n \in 1..(w + 1) |-> n - 1]
SweepRange(v, w) ==
  IF v >= 0 THEN [n \in 1..(w + 1) |-> w + 1 - n]
  ELSE [n \in 1..(w + 1) |-> n - 1]

\* if dp[i] == -1:
CellFreeAlways(d, c) == TRUE
CellFree(d, c) == d[c] = -1

\* j = i - v
PredOfPlus(c, v) == c + v
PredOf(c, v) == c - v

\* if 0 <= j <= width and dp[j] != -1:
SourceInRange(d, j, w) == 0 <= j /\ j <= w
SourceReached(d, j, w) == 0 <= j /\ j <= w /\ d[j] # -1

\* one iteration of the inner loop body for item idx (0-based) with amount v at cell c
VisitCell(d, p, ix, v, c, w) ==
  LET j == PredOf(c, v)
  IN  IF CellFree(d, c) /\ SourceReached(d, j, w)
      THEN [dp |-> [d EXCEPT ![c] = ix], prev |-> [p EXCEPT ![c] = j]]
      ELSE [dp |-> d, prev |-> p]

\* key = (abs(s - target), 0 if s <= target else 1)
Key(s, tgt) == <<Abs(s - tgt), IF s <= tgt THEN 0 ELSE 1>>
KeyLessOrEqDist(a, b) == a[1] <= b[1]
\* key < best_key  (tuple comparison)
KeyLess(a, b) == a[1] < b[1] \/ (a[1] = b[1] /\ a[2] < b[2])

\* the selection loop: for s in range(lower, upper + 1); best is <<>> for None or <<best_s>>
RECURSIVE ScanWindow(_, _, _, _, _, _, _)
ScanWindow(s, up, off, w, d, tgt, best) ==
  IF s > up THEN best
  ELSE LET c == s + off
           better == /\ 0 <= c /\ c <= w /\ d[c] # -1
                     /\ (best = <<>> \/ KeyLess(Key(s, tgt), Key(best[1], tgt)))
       IN  ScanWindow(s + 1, up, off, w, d, tgt, IF better THEN <<s>> ELSE best)

\* indices.reverse(); return indices, best_s
ReturnedIndicesUnreversed(q) == q
ReturnedIndices(q) == Reverse(q)

\* ---- state ----------------------------------------------------------------
VARIABLES
  pc,        \* position: idle, sweep, reconstruct, returned, responded
  caller,    \* who called the solver: none, direct, index
  args,      \* the arguments of the call as passed: values, target, tolerance
  values, target, tolerance,   \* locals of subset_sum_with_tolerance
  lower, upper, offset, width,
  dp, prev,  \* the two tables, empty before allocation
  idx, k,    \* outer loop: item index; inner loop: elements of the range consumed
  best_s,    \* <<>> for None, <<s>> otherwise
  i, indices, broke,   \* reconstruction cursor, collected indices, early break taken
  result,    \* the returned pair
  calls,     \* number of invocations of subset_sum_with_tolerance
  form,      \* index: the raw form texts lista, alvo, tolerancia
  labels,    \* index: the labels of the parsed items
  response   \* index: what the handler returned

solverVars == <<args, values, target, tolerance, lower, upper, offset, width,
                dp, prev, idx, k, best_s, i, indices, broke, result, calls>>
handlerVars == <<form, labels, response>>
vars == <<pc, caller, solverVars, handlerVars>>

NoTable == [c \in {} |-> -1]
NotFound == [idxs |-> <<>>, soma |-> 0]

Init ==
  /\ pc = "idle" /\ caller = "none"
  /\ args = [values |-> <<>>, target |-> 0, tolerance |-> 0]
  /\ values = <<>> /\ target = 0 /\ tolerance = 0
  /\ lower = 0 /\ upper = 0 /\ offset = 0 /\ width = -1
  /\ dp = NoTable /\ prev = NoTable
  /\ idx = 0 /\ k = 0 /\ best_s = <<>>
  /\ i = 0 /\ indices = <<>> /\ broke = FALSE
  /\ result = NotFound /\ calls = 0
  /\ form = [lista |-> <<>>, alvo |-> <<>>, tolerancia |-> <<>>]
  /\ labels = <<>> /\ response = [kind |-> "none"]

\* lines 104-122: entry of subset_sum_with_tolerance up to the allocated tables
Enter(vals, tgt, tol) ==
  LET t == CoerceTolerance(tol)
      lo == Lower(vals, tgt, t)
      up == Upper(vals, tgt, t)
      off == -MinSum(vals)
      w == MaxSum(vals) - MinSum(vals)
  IN  /\ args' = [values |-> vals, target |-> tgt, tolerance |-> tol]
      /\ values' = vals /\ target' = tgt /\ tolerance' = t
      /\ calls' = calls + 1
      /\ UNCHANGED <<idx, k, best_s, i, indices, broke>>
      /\ IF vals = <<>>
         THEN /\ pc' = "returned" /\ result' = NotFound
              /\ UNCHANGED <<lower, upper, offset, width, dp, prev>>
         ELSE /\ lower' = lo /\ upper' = up
              /\ IF lo > up
                 THEN /\ pc' = "returned" /\ result' = NotFound
                      /\ UNCHANGED <<offset, width, dp, prev>>
                 ELSE /\ offset' = off /\ width' = w
                      /\ dp' = [[c \in 0..w |-> -1] EXCEPT ![off] = -2]
                      /\ prev' = [c \in 0..w |-> -1]
                      /\ pc' = "sweep" /\ UNCHANGED result

DirectCall ==
  /\ pc = "idle"
  /\ \E vals \in SeqsUpTo((-MaxAbs)..MaxAbs, MaxLen),
        tgt \in (-MaxTarget)..MaxTarget, tol \in (-1)..MaxTol :
       /\ caller' = "direct"
       /\ Enter(vals, tgt, tol)
  /\ UNCHANGED handlerVars

InvalidTargetOnly(alvo, itens) == alvo = None
\* if alvo is None or not itens:
Invalid(alvo, itens) == alvo = None \/ itens = <<>>

\* lines 175-197: POST up to the validation response or the call of the solver
Request ==
  /\ pc = "idle"
  /\ \E lista \in ListaTexts, alvo_str \in AlvoTexts, tolerancia_str \in ToleranciaTexts :
       LET alvo == parse_number_br_or_en(alvo_str)
           tol == parse_number_br_or_en(tolerancia_str)
           \* parse_number_br_or_en(tolerancia_str) or 0
           tolerancia == IF tol = None THEN 0 ELSE tol[1]
           itens == parse_linhas_para_centavos(lista)
       IN  /\ form' = [lista |-> lista, alvo |-> alvo_str, tolerancia |-> tolerancia_str]
           /\ caller' = "index"
           /\ IF Invalid(alvo, itens)
              THEN /\ response' = [kind |-> "template", error |-> ErrorText, lista |-> lista,
                                   alvo |-> alvo_str, tolerancia |-> tolerancia_str]
                   /\ pc' = "responded"
                   /\ UNCHANGED <<labels, solverVars>>
              ELSE /\ labels' = [n \in 1..Len(itens) |-> itens[n].label]
                   /\ Enter([n \in 1..Len(itens) |-> itens[n].valor],
                            alvo[1], tolerancia)
                   /\ UNCHANGED response

\* lines 204-213: the selected items and their total
RECURSIVE Selecionados(_, _, _)
Selecionados(idxs, labs, vals) ==
  IF idxs = <<>> THEN <<>>
  ELSE <<[index |-> Head(idxs), label |-> labs[Head(idxs) + 1],
          valor_txt |-> format_centavos(vals[Head(idxs) + 1]),
          valor_centavos |-> vals[Head(idxs) + 1]]>>
       \o Selecionados(Tail(idxs), labs, vals)

\* lines 199-224: the solver returned to the handler
Respond ==
  /\ pc = "returned" /\ caller = "index"
  /\ LET idxs == result.idxs
         alvo == args.target
         selecionados == Selecionados(idxs, labels, values)
         total == SumSeq([n \in 1..Len(selecionados) |-> selecionados[n].valor_centavos])
     IN  IF idxs = <<>>
         THEN response' = [kind |-> "text", body |-> InfeasibleText]
         ELSE response' = [kind |-> "json", ok |-> TRUE,
                           alvo_txt |-> format_centavos(alvo),
                           total_txt |-> format_centavos(total),
                           diferenca_txt |-> format_centavos(total - alvo),
                           tolerancia_txt |-> format_centavos(args.tolerance),
                           exato |-> (total = alvo),
                           selecionados |-> selecionados]
  /\ pc' = "responded"
  /\ UNCHANGED <<caller, solverVars, form, labels>>

\* lines 124-140: one iteration of the inner loop of the pass of item idx
SweepCell ==
  /\ pc = "sweep" /\ idx < Len(values) /\ k < width + 1
  /\ LET v == values[idx + 1]
         c == SweepRange(v, width)[k + 1]
         t == VisitCell(dp, prev, idx, v, c, width)
     IN  /\ dp' = t.dp /\ prev' = t.prev
  /\ k' = k + 1
  /\ UNCHANGED <<pc, caller, args, values, target, tolerance, lower, upper, offset,
                 width, idx, best_s, i, indices, broke, result, calls, handlerVars>>

\* the inner range is exhausted: the outer loop takes the next item
NextItem ==
  /\ pc = "sweep" /\ idx < Len(values) /\ k = width + 1
  /\ idx' = idx + 1 /\ k' = 0
  /\ UNCHANGED <<pc, caller, args, values, target, tolerance, lower, upper, offset,
                 width, dp, prev, best_s, i, indices, broke, result, calls, handlerVars>>

\* lines 142-158: all items processed; select the best sum of the window
Select ==
  /\ pc = "sweep" /\ idx = Len(values)
  /\ LET b == ScanWindow(lower, upper, offset, width, dp, target, <<>>)
     IN  /\ best_s' = b
         /\ IF b = <<>>
            THEN /\ pc' = "returned" /\ result' = NotFound /\ UNCHANGED <<i, indices>>
            ELSE /\ pc' = "reconstruct" /\ indices' = <<>> /\ i' = b[1] + offset
                 /\ UNCHANGED result
  /\ UNCHANGED <<caller, args, values, target, tolerance, lower, upper, offset,
                 width, dp, prev, idx, k, broke, calls, handlerVars>>

\* lines 159-164: one iteration of the while loop
ReconStep ==
  /\ pc = "reconstruct" /\ ~broke /\ i # 0 + offset
  /\ IF dp[i] < 0
     THEN broke' = TRUE /\ UNCHANGED <<i, indices>>
     ELSE /\ indices' = Append(indices, dp[i])
          /\ i' = prev[i]
          /\ UNCHANGED broke
  /\ UNCHANGED <<pc, caller, args, values, target, tolerance, lower, upper, offset,
                 width, dp, prev, idx, k, best_s, result, calls, handlerVars>>

\* lines 165-166: the loop has ended
Return ==
  /\ pc = "reconstruct" /\ (broke \/ i = 0 + offset)
  /\ result' = [idxs |-> ReturnedIndices(indices), soma |-> best_s[1]]
  /\ pc' = "returned"
  /\ UNCHANGED <<caller, args, values, target, tolerance, lower, upper, offset,
                 width, dp, prev, idx, k, best_s, i, indices, broke, calls, handlerVars>>

Next == DirectCall \/ Request \/ Respond \/ SweepCell \/ NextItem \/ Select \/ ReconStep \/ Return

Spec == Init /\ [][Next]_vars
\* ---- vocabulary of the properties ------------------------------------------
Returned == pc \in {"returned", "responded"} /\ calls > 0
Found == Returned /\ result.idxs # <<>>

RECURSIVE SumOver(_, _)
SumOver(S, vals) == IF S = {} THEN 0
                    ELSE LET n == CHOOSE m \in S : TRUE
                         IN  vals[n] + SumOver(S \ {n}, vals)
\* the sums of all subsets of the first n items, each item used at most once
SubsetSums(vals, n) == {SumOver(S, vals) : S \in SUBSET (1..n)}
NonEmptySubsetSums(vals) == {SumOver(S, vals) : S \in (SUBSET (1..Len(vals))) \ {{}}}
\* the tolerance window of the call, from its arguments
InWindow(s) == LET t == IF args.tolerance < 0 THEN 0 ELSE args.tolerance
               IN  args.target - t <= s /\ s <= args.target + t
Reached == {c \in DOMAIN dp : dp[c] # -1}
Allocated == DOMAIN dp # {}

\* C1: when the solver returns Found, the amounts at the returned positions sum
\* to the returned achieved sum exactly, and so does the total the handler
\* recomputes for its payload.
C1_SumMatches ==
  Found =>
    /\ \A n \in 1..Len(result.idxs) : result.idxs[n] \in 0..(Len(args.values) - 1)
    /\ SumSeq([n \in 1..Len(result.idxs) |-> args.values[result.idxs[n] + 1]]) = result.soma
    /\ (pc = "responded" /\ caller = "index") =>
         /\ response.kind = "json"
         /\ response.total_txt = format_centavos(result.soma)
         /\ response.exato = (result.soma = args.target)
C1_Witness ==
  /\ pc = "responded" /\ response.kind = "json"
  /\ Len(result.idxs) = 2 /\ \E n \in 1..2 : values[result.idxs[n] + 1] < 0

\* C2: when the solver returns Found, the achieved sum lies within the tolerance
\* of the target, a negative tolerance counting as 0.
C2_InWindow == Found => InWindow(result.soma)
C2_Witness ==
  /\ Found /\ args.tolerance > 0
  /\ result.soma = args.target + args.tolerance
  /\ MaxSum(args.values) > result.soma

\* C3: when the solver returns Found with sum s, no subset sum inside the window
\* is strictly closer to the target than s, and if another subset sum inside the
\* window is as close as s, then s <= target.
C3_Closest ==
  Found =>
    LET s == result.soma
        d == Abs(s - args.target)
    IN  \A t \in SubsetSums(args.values, Len(args.values)) :
          InWindow(t) =>
            /\ Abs(t - args.target) >= d
            /\ (t # s /\ Abs(t - args.target) = d) => s <= args.target
C3_Witness ==
  /\ Found
  /\ \E t \in SubsetSums(args.values, Len(args.values)) :
       /\ t # result.soma /\ InWindow(t)
       /\ Abs(t - args.target) = Abs(result.soma - args.target)

\* C4 (as claimed): for non-empty values the solver returns NotFound only when no
\* subset sum lies in the window; if a non-empty subset has its sum in the window
\* the result is Found.
C4_NotFoundOnlyWhenInfeasible ==
  (Returned /\ args.values # <<>>) =>
    ((\E t \in NonEmptySubsetSums(args.values) : InWindow(t)) => result.idxs # <<>>)

\* C5: the returned positions are strictly ascending (hence without duplicates)
\* and each is a valid index of the input.
C5_PositionsAscending ==
  Found =>
    /\ \A n \in 1..Len(result.idxs) : result.idxs[n] \in 0..(Len(args.values) - 1)
    /\ \A n \in 1..(Len(result.idxs) - 1) : result.idxs[n] < result.idxs[n + 1]
C5_Witness == Found /\ Len(result.idxs) >= 2 /\ result.idxs[1] > 0

\* C6 (as claimed): a table wider than the ceiling is never allocated; the call
\* ends in a resource-limit failure instead.
C6_WidthCeilingEnforced == width > WidthCeiling => ~Allocated

\* C7: a request whose target is unparsable or whose list yields no amount ends
\* in the validation response echoing the raw texts, without the solver being
\* invoked; that response is neither the infeasible text nor the success payload.
C7_ValidationFailure ==
  (caller = "index" /\ (parse_number_br_or_en(form.alvo) = None
                        \/ parse_linhas_para_centavos(form.lista) = <<>>)) =>
    /\ calls = 0 /\ pc = "responded"
    /\ response = [kind |-> "template", error |-> ErrorText, lista |-> form.lista,
                   alvo |-> form.alvo, tolerancia |-> form.tolerancia]
    /\ response.kind \notin {"text", "json"}
C7_Witness ==
  /\ caller = "index" /\ pc = "responded" /\ response.kind = "template"
  /\ parse_number_br_or_en(form.alvo) # None
  /\ form.lista # <<>> /\ parse_linhas_para_centavos(form.lista) = <<>>

\* C8: after the passes of items 0..idx-1 the reached cells are exactly the
\* shifted sums of the subsets of those items, and no cell was reached from a
\* cell the same pass produced.
C8_ReachedExactly ==
  /\ (pc = "sweep" /\ k = 0) =>
       Reached = {offset + t : t \in SubsetSums(values, idx)}
  /\ \A c \in DOMAIN dp : dp[c] >= 0 => dp[prev[c]] # dp[c]
C8_Witness ==
  /\ pc = "sweep" /\ k = 0 /\ idx = Len(values) /\ idx >= 2
  /\ \E n, m \in 1..Len(values) : values[n] < 0 /\ values[m] > 0
  /\ Cardinality(Reached) >= 4

\* C9: once a cell is marked reached, no later step changes its item index or
\* its predecessor; the cell of sum 0 keeps the base marker.
C9_FirstReachedWins ==
  /\ [](Allocated => dp[offset] = -2)
  /\ [][\A c \in DOMAIN dp : dp[c] # -1 => (dp'[c] = dp[c] /\ prev'[c] = prev[c])]_vars
C9_Witness ==
  /\ pc = "sweep" /\ idx < Len(values) /\ k < width + 1
  /\ LET v == values[idx + 1]
         c == SweepRange(v, width)[k + 1]
     IN  /\ dp[c] >= 0 /\ v # 0
         /\ SourceReached(dp, PredOf(c, v), width)

\* C10: every reached non-base cell has a reached predecessor of a strictly
\* smaller item index (or the base cell), one item amount below it; so the
\* reconstruction visits strictly decreasing item indices, takes at most
\* len(values) steps and never leaves through the early break.
C10_PredecessorChain ==
  /\ \A c \in DOMAIN dp : dp[c] >= 0 =>
       /\ prev[c] \in DOMAIN dp
       /\ dp[prev[c]] # -1
       /\ (dp[prev[c]] = -2 /\ prev[c] = offset) \/ (dp[prev[c]] >= 0 /\ dp[prev[c]] < dp[c])
       /\ prev[c] + values[dp[c] + 1] = c
  /\ ~broke
  /\ pc = "reconstruct" => dp[i] # -1
  /\ \A n \in 1..(Len(indices) - 1) : indices[n] > indices[n + 1]
  /\ Len(indices) <= Len(values)
C10_Witness == pc = "reconstruct" /\ i = offset /\ Len(indices) >= 2
====
